---- MODULE Spec2Model ----
(***************************************************************************)
(* Pull-based extractors of amundsendatabuilder:                           *)
(*   TableauDashboardOwnerExtractor / TableauGraphQLApiOwnerExtractor      *)
(*   TableauDashboardUserExtractor  / TableauGraphQLApiUserExtractor       *)
(*   TableauDashboardViewExtractor  / TableauGraphQLApiViewExtractor       *)
(*   SnowflakeTableOwnerExtractor                                          *)
(* One extractor instance is constructed (Init) over a fixed upstream      *)
(* sequence and a fixed configuration; every step is one extract() call.   *)
(*                                                                         *)
(* Python values: a str is the tuple of its characters (a word no          *)
(* operation looks inside is written as one element), None is the tuple    *)
(* <<"None">>, a dict or a model instance is a record, a list is a tuple,  *)
(* a generator is its state ("created", "suspended", "closed") plus its    *)
(* local variables.                                                        *)
(***************************************************************************)
EXTENDS Integers, Sequences, FiniteSets, TLC

\* ------------------------------------------------------------- bounds
\* longest GraphQL response (number of workbooks)
MaxWorkbooks == 2
\* longest SQL result (number of rows)
MaxRows == 3
\* extract() calls made after the iterator has closed
MaxIdleCalls == 2

\* ------------------------------------------------------ Python values
None == <<"None">>
NoneResult == [type |-> "NoneType"]
NotCalled == [type |-> "no call yet"]
ConfigMissingException == [type |-> "raised", exception |-> "ConfigMissingException"]

\* a configuration key: present with a value, or missing
Missing == [present |-> FALSE, value |-> <<>>]
Given(v) == [present |-> TRUE, value |-> v]
\* the default argument of a pyhocon getter: none (UndefinedKey) or a value
UndefinedKey == [present |-> FALSE, value |-> <<>>]

P1 == <<"p", "1">>
P2 == <<"p", "2">>

\* ------------------------------------------------- library collaborators
\* pyhocon ConfigTree.get_list / get_string / get: the value of the key, else
\* the default, else ConfigMissingException
ConfGet(entry, default) ==
    IF entry.present THEN [raised |-> FALSE, value |-> entry.value]
    ELSE IF default.present THEN [raised |-> FALSE, value |-> default.value]
    ELSE [raised |-> TRUE, value |-> <<>>]

\* Python's `x in lst`
InList(x, lst) == \E i \in 1..Len(lst) : lst[i] = x

\* TableauDashboardUtils.sanitize_workbook_name: re.sub(r"(\/|\')", '', name)
sanitize_workbook_name(name) ==
    SelectSeq(name, LAMBDA c : c \notin {"/", "'"})

\* TableauGraphQLApiExtractor.extract, after next(): record.update(static_dict)
\* with STATIC_RECORD_DICT = {'product': 'tableau'}
UpdateStatic(record) == [product |-> <<"tableau">>] @@ record

\* DictToModel.transform behind ChainedTransformer: model_class(**record)
DictToModel(model_class, record) == [type |-> model_class] @@ record

\* `not record` for what TableauGraphQLApiExtractor.extract returns: None is
\* falsy, a dict with keys is truthy
Falsy(record) == record = NoneResult

\* SQLAlchemyExtractor.extract: the next row of the result, None after the last
AlchemyExtract(results, consumed) ==
    IF consumed < Len(results) THEN results[consumed + 1] ELSE NoneResult

\* ---------------------------------------------------------------- inputs
\* all sequences over S of length at most n
SeqsUpTo(S, n) == UNION {[1..k -> S] : k \in 0..n}

Emails == {<<"e", "1">>, <<"e", "2">>}
\* workbook names: None (no permission) or a name with a character to sanitize
WorkbookNames == {None, <<"a", "/", "b">>}
ProjectNames == {None, P1, P2}

\* GraphQL workbooks of the owner query (name, projectName, owner {email});
\* vizportalUrlId is the workbook's position in the response
OwnerWorkbooks ==
    [name : WorkbookNames, projectName : ProjectNames, owner : [email : Emails]]

\* GraphQL workbooks of the user query (owner {username, name, email}); the
\* workbook's project is not queried but every workbook has one
TableauUsers ==
    {[username |-> <<"u", "1">>, name |-> <<"n", "1">>, email |-> <<"e", "1">>],
     [username |-> <<"u", "2">>, name |-> <<"n", "2">>, email |-> <<"e", "2">>]}
UserWorkbooks == [projectName : {P1, P2}, owner : TableauUsers]

\* GraphQL views (id, index, name, path)
ViewX == [id |-> <<"i", "x">>, index |-> <<"1">>, name |-> <<"X">>, path |-> <<"w", "/", "x">>]
ViewY == [id |-> <<"i", "y">>, index |-> <<"2">>, name |-> <<"Y">>, path |-> <<"w", "/", "y">>]
ViewNoPath == [id |-> <<"i", "n">>, index |-> <<"3">>, name |-> <<"N">>, path |-> None]
ViewEmptyPath == [id |-> <<"i", "e">>, index |-> <<"4">>, name |-> <<"E">>, path |-> <<>>]
ViewLists ==
    {<<>>, <<ViewX, ViewY>>, <<ViewNoPath, ViewX>>, <<ViewY, ViewEmptyPath>>,
     <<ViewNoPath, ViewEmptyPath>>}
ViewWorkbooks ==
    [name : WorkbookNames, projectName : {None, P1}, views : ViewLists] \cup
    [name : {<<"a", "/", "b">>}, projectName : {P2}, views : ViewLists]

\* rows of SQL_STATEMENT: cluster, schema, table_name, table_owner
SqlRows ==
    [cluster : {<<"c">>}, schema : {<<"s">>}, table_name : {<<"t", "1">>, <<"t", "2">>},
     table_owner : {<<"r", "1">>, <<"r", "2">>}]

\* role_user_mapping functions: the default `lambda role: role`, and a custom
\* mapping from a role to an e-mail address
RoleIdentity == "lambda role: role"
RoleToEmail == "lambda role: role + '@'"
ApplyRoleMapping(f, role) == IF f = RoleIdentity THEN role ELSE role \o <<"@">>

\* the keys every run configures (required by the Tableau extractors)
BaseConf ==
    [cluster |-> Given(<<"g">>), tableau_base_url |-> Given(<<"h">>),
     excluded_projects |-> Missing, site_name |-> Missing,
     database_key |-> Missing, snowflake_database |-> Missing,
     role_user_mapping |-> Missing]

ExcludedChoices == {Missing, Given(<<>>), Given(<<P1>>), Given(<<P2, P1>>)}
SiteChoices == {Missing, Given(<<>>), Given(<<"s">>)}

OwnerConfs == {[BaseConf EXCEPT !.excluded_projects = e] : e \in ExcludedChoices}
UserConfs == {[BaseConf EXCEPT !.excluded_projects = e] : e \in {Missing, Given(<<P1>>)}}
ViewConfs ==
    {[BaseConf EXCEPT !.excluded_projects = e, !.site_name = s] :
        e \in {Missing, Given(<<>>), Given(<<P1>>)}, s \in SiteChoices}
SnowflakeConfs ==
    {[BaseConf EXCEPT !.database_key = d, !.snowflake_database = sd, !.role_user_mapping = m] :
        d \in {Missing, Given(<<"d", "w">>)},
        sd \in {Missing, Given(<<"d", "e", "v">>)},
        m \in {Missing, Given(RoleToEmail)}}

\* ----------------------------------------------------------------- state
VARIABLES
    kind,            \* which extractor class the instance is
    conf,            \* self._conf
    response,        \* what execute_query() returns: response['workbooks']
    results,         \* the rows the SQLAlchemy extractor iterates
    iterator,        \* self._iterator / self._extract_iter: "None", or the generator's state
    workbooks_data,  \* owner generator: the filtered list (positions in response)
    wpos,            \* generator: position of the workbook (row) of the last yield
    vpos,            \* view generator: position of the view of the last yield
    consumed,        \* rows the SQLAlchemy extractor has handed out
    pulls,           \* calls of self._alchemy_extractor.extract()
    created,         \* generators created by this instance
    ret,             \* outcome of the last extract() call
    returned,        \* the model instances extract() has returned, in order
    origin,          \* for each returned instance, <<workbook or row position, view position>>
    log,             \* LOGGER.warning entries (the workbook's position)
    calls,           \* extract() calls made
    raised,          \* some extract() call has raised an exception
    idle             \* extract() calls made with the generator already closed

vars == <<kind, conf, response, results, iterator, workbooks_data, wpos, vpos, consumed,
          pulls, created, ret, returned, origin, log, calls, raised, idle>>

inputs == <<kind, conf, response, results>>

\* init(): the state after construction; no generator exists yet
Init ==
    /\ \/ /\ kind = "owner"
          /\ conf \in OwnerConfs
          /\ response \in SeqsUpTo(OwnerWorkbooks, MaxWorkbooks)
          /\ results = <<>>
       \/ /\ kind = "user"
          /\ conf \in UserConfs
          /\ response \in SeqsUpTo(UserWorkbooks, MaxWorkbooks)
          /\ results = <<>>
       \/ /\ kind = "view"
          /\ conf \in ViewConfs
          /\ response \in SeqsUpTo(ViewWorkbooks, MaxWorkbooks)
          /\ results = <<>>
       \/ /\ kind = "snowflake"
          /\ conf \in SnowflakeConfs
          /\ response = <<>>
          /\ results \in SeqsUpTo(SqlRows, MaxRows)
    /\ iterator = "None"
    /\ workbooks_data = <<>>
    /\ wpos = 0
    /\ vpos = 0
    /\ consumed = 0
    /\ pulls = 0
    /\ created = 0
    /\ ret = NotCalled
    /\ returned = <<>>
    /\ origin = <<>>
    /\ log = <<>>
    /\ calls = 0
    /\ raised = FALSE
    /\ idle = 0

\* --------------------------------------------------------- generators
\* what next() on a generator gives: a yielded value, StopIteration, or an
\* exception raised by the generator's code; with the generator's locals after it
GenYield(v, data, w, vw, lg) ==
    [status |-> "yield", value |-> v, workbooks_data |-> data, wpos |-> w, vpos |-> vw,
     warnings |-> lg]
GenStop(data, w, vw, lg) ==
    [status |-> "stop", value |-> NoneResult, workbooks_data |-> data, wpos |-> w,
     vpos |-> vw, warnings |-> lg]
GenRaise(e, data, w, vw, lg) ==
    [status |-> "raise", value |-> e, workbooks_data |-> data, wpos |-> w, vpos |-> vw,
     warnings |-> lg]

\* mutant of NullGuard: only the project name is looked at
NullGuardProjectOnly(workbook) == workbook.projectName = None

\* `None in (workbook['projectName'], workbook['name'])`
NullGuard(workbook) == None \in {workbook.projectName, workbook.name}

\* mutant of OwnerFilter: the comprehension keeps every workbook
OwnerFilterKeepsAll(resp, cnf) ==
    [raised |-> FALSE, value |-> [i \in 1..Len(resp) |-> i]]

\* TableauGraphQLApiOwnerExtractor.execute, the list comprehension: the
\* condition, and with it get_list(EXCLUDED_PROJECTS), is evaluated once per
\* workbook of the response; the list keeps the positions of the workbooks kept
OwnerFilter(resp, cnf) ==
    LET excluded == ConfGet(cnf.excluded_projects, UndefinedKey)
        positions == [i \in 1..Len(resp) |-> i]
    IN  IF resp # <<>> /\ excluded.raised
        THEN [raised |-> TRUE, value |-> <<>>]
        ELSE [raised |-> FALSE,
              value |-> SelectSeq(positions,
                                  LAMBDA i : ~InList(resp[i].projectName, excluded.value))]

\* TableauGraphQLApiOwnerExtractor.execute, the dict of one workbook
OwnerData(cnf, workbook) ==
    [cluster |-> ConfGet(cnf.cluster, UndefinedKey).value,
     dashboard_group_id |-> workbook.projectName,
     dashboard_id |-> sanitize_workbook_name(workbook.name),
     email |-> workbook.owner.email]

\* TableauGraphQLApiOwnerExtractor.execute, the for loop from position i of
\* workbooks_data to the next yield
RECURSIVE OwnerLoop(_, _, _, _, _)
OwnerLoop(resp, cnf, data, i, lg) ==
    IF i > Len(data) THEN GenStop(data, Len(data), 0, lg)
    ELSE IF NullGuard(resp[data[i]])
         THEN OwnerLoop(resp, cnf, data, i + 1, Append(lg, data[i]))
         ELSE GenYield(OwnerData(cnf, resp[data[i]]), data, i, 0, lg)

\* next() on the generator of TableauGraphQLApiOwnerExtractor.execute
OwnerNext(state, resp, cnf, data, w) ==
    IF state = "closed" THEN GenStop(data, w, 0, <<>>)
    ELSE IF state = "created"
         THEN LET kept == OwnerFilter(resp, cnf)
              IN  IF kept.raised
                  THEN GenRaise(ConfigMissingException, <<>>, 0, 0, <<>>)
                  ELSE OwnerLoop(resp, cnf, kept.value, 1, <<>>)
         ELSE OwnerLoop(resp, cnf, data, w + 1, <<>>)

\* TableauGraphQLApiUserExtractor.execute, the dict of one workbook
UserData(workbook) ==
    [email |-> workbook.owner.email,
     full_name |-> workbook.owner.name,
     first_name |-> workbook.owner.username]

\* next() on the generator of TableauGraphQLApiUserExtractor.execute
UserNext(state, resp, w) ==
    IF state = "closed" THEN GenStop(<<>>, w, 0, <<>>)
    ELSE IF w + 1 > Len(resp) THEN GenStop(<<>>, Len(resp), 0, <<>>)
    ELSE GenYield(UserData(resp[w + 1]), <<>>, w + 1, 0, <<>>)

\* mutant of ViewSitePath: the site segment is built also for the empty name
ViewSitePathAlways(cnf) ==
    <<"/", "site", "/">> \o ConfGet(cnf.site_name, Given(<<>>)).value

\* TableauGraphQLApiViewExtractor.execute: site_url_path
ViewSitePath(cnf) ==
    LET site_name == ConfGet(cnf.site_name, Given(<<>>)).value
    IN  IF site_name # <<>> THEN <<"/", "site", "/">> \o site_name ELSE <<>>

\* f'{base_url}/#{site_url_path}/views/{view["path"]}'
ViewUrl(cnf, view) ==
    ConfGet(cnf.tableau_base_url, UndefinedKey).value \o <<"/", "#">> \o ViewSitePath(cnf)
        \o <<"/", "views", "/">> \o view.path

\* TableauGraphQLApiViewExtractor.execute, the dict of one view
ViewData(cnf, workbook, view) ==
    [dashboard_group_id |-> workbook.projectName,
     dashboard_id |-> sanitize_workbook_name(workbook.name),
     query_name |-> view.index \o <<".", " ">> \o view.name,
     query_id |-> view.id,
     query_text |-> ViewUrl(cnf, view),
     url |-> ViewUrl(cnf, view),
     cluster |-> ConfGet(cnf.cluster, UndefinedKey).value]

\* `workbook['projectName'] in self._conf.get_list(EXCLUDED_PROJECTS, [])`
ViewExcluded(cnf, workbook) ==
    InList(workbook.projectName, ConfGet(cnf.excluded_projects, Given(<<>>)).value)

\* mutant of ViewSkipped: only the empty path is skipped
ViewSkippedEmptyOnly(view) == view.path = <<>>

\* `view['path'] == '' or view['path'] is None`
ViewSkipped(view) == view.path = <<>> \/ view.path = None

\* TableauGraphQLApiViewExtractor.execute, the nested for loops up to the next
\* yield: w is the workbook, v the view to look at next, v = 0 before the
\* workbook's guards have run
RECURSIVE ViewLoop(_, _, _, _)
ViewLoop(resp, cnf, w, v) ==
    IF w > Len(resp) THEN GenStop(<<>>, Len(resp), 0, <<>>)
    ELSE IF v = 0
         THEN IF NullGuard(resp[w]) THEN ViewLoop(resp, cnf, w + 1, 0)
              ELSE IF ViewExcluded(cnf, resp[w]) THEN ViewLoop(resp, cnf, w + 1, 0)
              ELSE ViewLoop(resp, cnf, w, 1)
         ELSE IF v > Len(resp[w].views) THEN ViewLoop(resp, cnf, w + 1, 0)
              ELSE IF ViewSkipped(resp[w].views[v]) THEN ViewLoop(resp, cnf, w, v + 1)
              ELSE GenYield(ViewData(cnf, resp[w], resp[w].views[v]), <<>>, w, v, <<>>)

\* mutant of ViewNext: resuming after a yield leaves the workbook's other views
ViewNextLeavesWorkbook(state, resp, cnf, w, v) ==
    IF state = "closed" THEN GenStop(<<>>, w, v, <<>>)
    ELSE IF state = "created" THEN ViewLoop(resp, cnf, 1, 0)
    ELSE ViewLoop(resp, cnf, w + 1, 0)

\* next() on the generator of TableauGraphQLApiViewExtractor.execute
ViewNext(state, resp, cnf, w, v) ==
    IF state = "closed" THEN GenStop(<<>>, w, v, <<>>)
    ELSE IF state = "created" THEN ViewLoop(resp, cnf, 1, 0)
    ELSE ViewLoop(resp, cnf, w, v + 1)

\* SnowflakeTableOwnerExtractor.DEFAULT_CONFIG
DEFAULT_CONFIG ==
    [database_key |-> <<"snowflake">>, snowflake_database |-> <<"prod">>,
     role_user_mapping |-> RoleIdentity]

\* SnowflakeTableOwnerExtractor.init: self._snowflake_database
SnowflakeDatabase(cnf) ==
    ConfGet(cnf.snowflake_database, Given(DEFAULT_CONFIG.snowflake_database)).value

\* mutant of Database: the Snowflake database name is taken
DatabaseFromSnowflakeKey(cnf) == SnowflakeDatabase(cnf)

\* SnowflakeTableOwnerExtractor.init: self._database
Database(cnf) == ConfGet(cnf.database_key, Given(DEFAULT_CONFIG.database_key)).value

\* SnowflakeTableOwnerExtractor.init: self._role_email_mapping
RoleEmailMapping(cnf) ==
    ConfGet(cnf.role_user_mapping, Given(DEFAULT_CONFIG.role_user_mapping)).value

\* _get_extract_iter: the TableOwner(...) call, as its keyword arguments
TableOwnerOf(cnf, row) ==
    [type |-> "TableOwner",
     db_name |-> Database(cnf),
     table_name |-> row.table_name,
     owners |-> <<ApplyRoleMapping(RoleEmailMapping(cnf), row.table_owner)>>,
     schema |-> row.schema,
     cluster |-> row.cluster]

\* `while tbl_owner_row:` a result row has its four columns, so only None is falsy
RowTruthy(row) == row # NoneResult

\* mutant of IteratorFalsy: an exhausted generator counts as falsy too
IteratorFalsyWhenClosed(it) == it \in {"None", "closed"}

\* `if not self._extract_iter`, `if not self._iterator`: None is falsy, a
\* generator object is truthy whatever its state
IteratorFalsy(it) == it = "None"

\* next() on the generator of _get_extract_iter: a live generator calls
\* self._alchemy_extractor.extract() once, before the loop or after the yield
SnowflakeNext(state, rows, n, cnf) ==
    IF state = "closed" THEN [status |-> "stop", value |-> NoneResult, pulled |-> 0]
    ELSE LET tbl_owner_row == AlchemyExtract(rows, n)
         IN  IF RowTruthy(tbl_owner_row)
             THEN [status |-> "yield", value |-> TableOwnerOf(cnf, tbl_owner_row), pulled |-> 1]
             ELSE [status |-> "stop", value |-> NoneResult, pulled |-> 1]

\* ------------------------------------------------------------ extract()
\* TableauGraphQLApiExtractor.extract, from next() on: StopIteration gives
\* None, a yielded dict is updated with the static dict
ApiRecord(g) == IF g.status = "yield" THEN UpdateStatic(g.value) ELSE NoneResult

\* Tableau*Extractor.extract: `if not record: return None`, else the
\* transformed record
ExtractReturn(model_class, record) ==
    IF Falsy(record) THEN NoneResult ELSE DictToModel(model_class, record)

\* one extract() call of a Tableau extractor whose generator answers g to
\* next(); src is where the yielded dict comes from
TableauExtract(g, model_class, src) ==
    /\ idle < MaxIdleCalls
    /\ iterator' = IF g.status = "yield" THEN "suspended" ELSE "closed"
    /\ created' = IF IteratorFalsy(iterator) THEN created + 1 ELSE created
    /\ workbooks_data' = g.workbooks_data
    /\ wpos' = g.wpos
    /\ vpos' = g.vpos
    /\ log' = log \o g.warnings
    /\ ret' = IF g.status = "raise" THEN g.value
              ELSE ExtractReturn(model_class, ApiRecord(g))
    /\ returned' = IF g.status = "yield" THEN Append(returned, ret') ELSE returned
    /\ origin' = IF g.status = "yield" THEN Append(origin, src) ELSE origin
    /\ calls' = calls + 1
    /\ raised' = (raised \/ g.status = "raise")
    /\ idle' = IF iterator = "closed" THEN idle + 1 ELSE idle
    /\ UNCHANGED <<inputs, consumed, pulls>>

\* the generator state next() is called on: execute() is called when
\* self._iterator is falsy
Live(it) == IF IteratorFalsy(it) THEN "created" ELSE it

\* TableauDashboardOwnerExtractor.extract
OwnerExtract ==
    /\ kind = "owner"
    /\ LET g == OwnerNext(Live(iterator), response, conf, workbooks_data, wpos)
       IN  TableauExtract(g, "DashboardOwner",
                          IF g.status = "yield" THEN <<g.workbooks_data[g.wpos], 0>>
                          ELSE <<0, 0>>)

\* TableauDashboardUserExtractor.extract
UserExtract ==
    /\ kind = "user"
    /\ LET g == UserNext(Live(iterator), response, wpos)
       IN  TableauExtract(g, "User", <<g.wpos, 0>>)

\* TableauDashboardViewExtractor.extract
ViewExtract ==
    /\ kind = "view"
    /\ LET g == ViewNext(Live(iterator), response, conf, wpos, vpos)
       IN  TableauExtract(g, "DashboardQuery", <<g.wpos, g.vpos>>)

\* mutant of SnowflakeReturn: StopIteration is not caught
SnowflakeReturnUncaught(g) ==
    IF g.status = "yield" THEN g.value
    ELSE [type |-> "raised", exception |-> "StopIteration"]

\* SnowflakeTableOwnerExtractor.extract: `return next(self._extract_iter)`,
\* None on StopIteration
SnowflakeReturn(g) == IF g.status = "yield" THEN g.value ELSE NoneResult

\* SnowflakeTableOwnerExtractor.extract
SnowflakeExtract ==
    /\ kind = "snowflake"
    /\ idle < MaxIdleCalls
    /\ LET g == SnowflakeNext(Live(iterator), results, consumed, conf)
       IN  /\ iterator' = IF g.status = "yield" THEN "suspended" ELSE "closed"
           /\ created' = IF IteratorFalsy(iterator) THEN created + 1 ELSE created
           /\ pulls' = pulls + g.pulled
           /\ consumed' = IF g.status = "yield" THEN consumed + g.pulled ELSE consumed
           /\ wpos' = consumed'
           /\ ret' = SnowflakeReturn(g)
           /\ returned' = IF g.status = "yield" THEN Append(returned, ret') ELSE returned
           /\ origin' = IF g.status = "yield" THEN Append(origin, <<consumed', 0>>) ELSE origin
    /\ calls' = calls + 1
    /\ idle' = IF iterator = "closed" THEN idle + 1 ELSE idle
    /\ UNCHANGED <<inputs, workbooks_data, vpos, log, raised>>

Next == OwnerExtract \/ UserExtract \/ ViewExtract \/ SnowflakeExtract

Spec == Init /\ [][Next]_vars

\* ------------------------------------------------------------- reading aids
\* the configured excluded-projects list, the empty list when none is configured
ExcludedList == IF conf.excluded_projects.present THEN conf.excluded_projects.value ELSE <<>>

Tableau == kind \in {"owner", "view"}

\* the positions <<w, v>> the returned instances come from
Origins == {origin[k] : k \in 1..Len(origin)}

\* workbook w of the response has produced all the output it can: its record
\* (owner), each of its views that has a path (view)
WorkbookYielded(w) ==
    IF kind = "view"
    THEN \A v \in 1..Len(response[w].views) :
            response[w].views[v].path \notin {None, <<>>} => <<w, v>> \in Origins
    ELSE <<w, 0>> \in Origins

\* the run has ended by the generator running to its end
RanToEnd == iterator = "closed" /\ ~raised

\* C1: for every extractor, an extract() call that leaves the generator closed
\* returns None - the one exception is the owner extractor's first call on a
\* non-empty response, which is not exhaustion - and once the generator is
\* closed every later extract() call returns None, returns no instance and
\* leaves it closed.
C1_ExhaustedReturnsNone ==
    [][/\ iterator' = "closed" =>
            \/ ret' = NoneResult
            \/ /\ ret' = ConfigMissingException
               /\ kind = "owner" /\ iterator = "None" /\ response # <<>>
       /\ iterator = "closed" =>
            /\ ret' = NoneResult
            /\ iterator' = "closed"
            /\ returned' = returned]_vars

\* C1 witness: instances were returned, then None, and two more calls were
\* made and answered None.
C1_Witness ==
    /\ returned # <<>>
    /\ iterator = "closed"
    /\ idle = MaxIdleCalls
    /\ ret = NoneResult

\* C2: in the owner and the view extractor, with an excluded-projects list
\* configured, no returned record comes from a workbook whose projectName is
\* in the list, and when the run has ended every workbook whose projectName is
\* not in the list and that passes the null guard has been yielded.
C2_ExcludedProjects ==
    (Tableau /\ conf.excluded_projects.present) =>
        /\ \A o \in Origins :
              ~InList(response[o[1]].projectName, conf.excluded_projects.value)
        /\ ~raised
        /\ RanToEnd =>
              \A w \in 1..Len(response) :
                 (/\ ~InList(response[w].projectName, conf.excluded_projects.value)
                  /\ response[w].projectName # None
                  /\ response[w].name # None) => WorkbookYielded(w)

\* C2 witness: a finished owner run over an excluded workbook followed by a
\* kept one, with the kept one returned.
C2_Witness ==
    /\ kind = "owner"
    /\ conf.excluded_projects = Given(<<P1>>)
    /\ Len(response) = 2
    /\ response[1].projectName = P1 /\ response[1].name # None
    /\ response[2].projectName = P2 /\ response[2].name # None
    /\ RanToEnd
    /\ origin = <<<<2, 0>>>>

\* C3: in the owner and the view extractor a workbook whose projectName or
\* name is None produces no record, so every returned record has
\* dashboard_group_id and dashboard_id other than None; skipping it raises
\* nothing (whether a run raises depends on the configuration and on the
\* response being empty alone, never on a field being None: it is the error
\* of C10), and it does not end the run: when the generator has run to its
\* end, every workbook that passes the null guard and the exclusion filter
\* has been yielded, also those after a skipped one.
C3_NullWorkbookSkipped ==
    Tableau =>
        /\ \A k \in 1..Len(origin) :
              /\ response[origin[k][1]].projectName # None
              /\ response[origin[k][1]].name # None
              /\ returned[k].dashboard_group_id # None
              /\ returned[k].dashboard_id # None
        /\ raised = (/\ calls > 0 /\ kind = "owner"
                     /\ ~conf.excluded_projects.present /\ response # <<>>)
        /\ RanToEnd =>
              \A w \in 1..Len(response) :
                 (/\ response[w].projectName # None
                  /\ response[w].name # None
                  /\ ~InList(response[w].projectName, ExcludedList)) => WorkbookYielded(w)

\* C3 witness: a finished view run whose first workbook has no name and whose
\* second workbook was yielded.
C3_Witness ==
    /\ kind = "view"
    /\ Len(response) = 2
    /\ response[1].name = None
    /\ response[1].views # <<>>
    /\ RanToEnd
    /\ origin = <<<<2, 1>>, <<2, 2>>>>

\* C4: the user extractor returns no record that comes from a workbook whose
\* project is in the excluded-projects list.
C4_UserExcludedProjects ==
    kind = "user" =>
        \A o \in Origins : ~InList(response[o[1]].projectName, ExcludedList)

\* C5: in the owner and the view extractor, as many warnings have been logged
\* as workbooks have been skipped by the null guard: when the generator has
\* run to its end, one for every workbook with a None projectName or name
\* that the exclusion filter let through.
C5_WarningPerSkippedWorkbook ==
    (Tableau /\ RanToEnd) =>
        Len(log) = Cardinality({w \in 1..Len(response) :
                                   /\ NullGuard(response[w])
                                   /\ ~InList(response[w].projectName, ExcludedList)})

\* lexicographic order of the positions <<w, v>>
Before(a, b) == a[1] < b[1] \/ (a[1] = b[1] /\ a[2] < b[2])

\* the positions of the upstream rows no filter removes: workbooks (owner,
\* user), views (view), SQL rows (snowflake)
Retained ==
    CASE kind = "owner" ->
            {<<w, 0>> : w \in {x \in 1..Len(response) :
                                  /\ ~InList(response[x].projectName, ExcludedList)
                                  /\ response[x].projectName # None
                                  /\ response[x].name # None}}
      [] kind = "user" -> {<<w, 0>> : w \in 1..Len(response)}
      [] kind = "view" ->
            UNION {{<<w, v>> : v \in {y \in 1..Len(response[w].views) :
                                         response[w].views[y].path \notin {None, <<>>}}} :
                   w \in {x \in 1..Len(response) :
                             /\ ~InList(response[x].projectName, ExcludedList)
                             /\ response[x].projectName # None
                             /\ response[x].name # None}}
      [] OTHER -> {<<r, 0>> : r \in 1..Len(results)}

\* the fields of the row at position o that its record carries, as the
\* returned instance t has them
FieldsCarried(o, t) ==
    CASE kind = "owner" ->
            /\ t.dashboard_group_id = response[o[1]].projectName
            /\ t.email = response[o[1]].owner.email
      [] kind = "user" ->
            /\ t.email = response[o[1]].owner.email
            /\ t.full_name = response[o[1]].owner.name
            /\ t.first_name = response[o[1]].owner.username
      [] kind = "view" ->
            /\ t.dashboard_group_id = response[o[1]].projectName
            /\ t.query_id = response[o[1]].views[o[2]].id
      [] OTHER ->
            /\ t.table_name = results[o[1]].table_name
            /\ t.schema = results[o[1]].schema

\* C6: no loss, duplication or reordering. The returned instances come from
\* retained upstream rows, in strictly increasing upstream order (workbook,
\* then view within the workbook), each carrying its row's fields, one
\* instance per origin; and when the generator has run to its end every
\* retained row has its instance.
C6_NoLossNoReordering ==
    /\ Len(returned) = Len(origin)
    /\ \A k \in 1..Len(origin) :
          /\ origin[k] \in Retained
          /\ FieldsCarried(origin[k], returned[k])
          /\ k > 1 => Before(origin[k - 1], origin[k])
    /\ RanToEnd => Origins = Retained

\* C6 witness: a finished view run that returned the two views of the first
\* workbook and then a view of the second, with a skipped view in between.
C6_Witness ==
    /\ kind = "view"
    /\ RanToEnd
    /\ origin = <<<<1, 1>>, <<1, 2>>, <<2, 2>>>>
    /\ Len(returned) = 3

\* C7: the Snowflake extractor creates its iterator once, on the first
\* extract() call; an extract() call made before None has been returned calls
\* the SQLAlchemy extractor exactly once and returns the TableOwner of the row
\* pulled, if there is one; a call made after None has been returned does not
\* call it.
C7_OnePullPerCall ==
    [][kind = "snowflake" =>
          /\ created' = 1
          /\ pulls' = IF ret = NoneResult THEN pulls ELSE pulls + 1
          /\ (ret # NoneResult /\ pulls' <= Len(results)) =>
                /\ ret' = returned'[Len(returned')]
                /\ origin'[Len(origin')] = <<pulls', 0>>
                /\ Len(returned') = Len(returned) + 1
          /\ (ret = NoneResult \/ pulls' > Len(results)) =>
                /\ ret' = NoneResult
                /\ returned' = returned]_vars

\* C7 witness: every row was pulled and returned, None was returned, and two
\* more calls left the number of pulls at rows + 1.
C7_Witness ==
    /\ kind = "snowflake"
    /\ Len(results) = 2
    /\ Len(returned) = 2
    /\ calls = Len(results) + 1 + MaxIdleCalls
    /\ pulls = Len(results) + 1
    /\ created = 1

\* C8: every TableOwner the Snowflake extractor returns for a row r has
\* table_name, schema and cluster of r, db_name equal to the configured
\* database_key ('snowflake' when none is configured, whatever
\* snowflake_database is), and owners the one-element list of the role
\* mapping applied to r.table_owner: [r.table_owner] with the default mapping.
C8_TableOwnerFields ==
    kind = "snowflake" =>
        \A k \in 1..Len(returned) :
            LET r == results[origin[k][1]]
                t == returned[k]
            IN  /\ t.table_name = r.table_name
                /\ t.schema = r.schema
                /\ t.cluster = r.cluster
                /\ t.db_name = IF conf.database_key.present
                               THEN conf.database_key.value ELSE <<"snowflake">>
                /\ Len(t.owners) = 1
                /\ t.owners[1] = IF conf.role_user_mapping.present
                                 THEN ApplyRoleMapping(conf.role_user_mapping.value,
                                                       r.table_owner)
                                 ELSE r.table_owner

\* C8 witness: a TableOwner returned under the default database_key and role
\* mapping, with another snowflake_database configured.
C8_Witness ==
    /\ kind = "snowflake"
    /\ ~conf.database_key.present
    /\ ~conf.role_user_mapping.present
    /\ conf.snowflake_database.present
    /\ Len(returned) = 2
    /\ returned[2].owners = <<results[2].table_owner>>
    /\ returned[2].db_name = <<"snowflake">>

\* C9: in the view extractor no returned record comes from a view whose path
\* is None or the empty string; when the generator has run to its end, every
\* other view of a workbook that passes the guards has been returned, also
\* the views that follow a skipped view and the views of workbooks that
\* follow a workbook without a returned view.
C9_ViewWithoutPathSkipped ==
    kind = "view" =>
        /\ \A o \in Origins : response[o[1]].views[o[2]].path \notin {None, <<>>}
        /\ RanToEnd =>
              \A w \in 1..Len(response) :
                 (~NullGuard(response[w]) /\ ~ViewExcluded(conf, response[w])) =>
                    \A v \in 1..Len(response[w].views) :
                       \/ response[w].views[v].path = None
                       \/ response[w].views[v].path = <<>>
                       \/ \E k \in 1..Len(origin) :
                             /\ origin[k] = <<w, v>>
                             /\ returned[k].query_id = response[w].views[v].id

\* C9 witness: a finished view run over a kept workbook whose two views have
\* no path, followed by a workbook whose first view has no path and whose
\* second view was returned.
C9_Witness ==
    /\ kind = "view"
    /\ Len(response) = 2
    /\ ~NullGuard(response[1]) /\ ~ViewExcluded(conf, response[1])
    /\ response[1].views = <<ViewNoPath, ViewEmptyPath>>
    /\ response[2].views = <<ViewNoPath, ViewX>>
    /\ RanToEnd
    /\ origin = <<<<2, 2>>>>

\* C10: with no excluded-projects list configured the owner and the view
\* extractor behave as with the empty list: no extract() call raises, and
\* when the run has ended every workbook that passes the null guard has been
\* yielded whatever its project.
C10_NoListMeansEmptyList ==
    (Tableau /\ ~conf.excluded_projects.present) =>
        /\ ~raised
        /\ iterator = "closed" =>
              \A w \in 1..Len(response) : ~NullGuard(response[w]) => WorkbookYielded(w)

\* C11: every record the view extractor returns has query_text equal to url,
\* and that URL is base_url + '/#' + site_segment + '/views/' + the path of
\* the view it comes from, where site_segment is '' when site_name is not
\* configured or is the empty string and '/site/' + site_name otherwise; the
\* base_url and the site_segment are those of the configuration for every
\* record of the run.
C11_ViewUrlShape ==
    kind = "view" =>
        \A k \in 1..Len(returned) :
            LET view == response[origin[k][1]].views[origin[k][2]]
                site_segment ==
                    IF ~conf.site_name.present \/ conf.site_name.value = <<>>
                    THEN <<>>
                    ELSE <<"/", "site", "/">> \o conf.site_name.value
            IN  /\ returned[k].query_text = returned[k].url
                /\ returned[k].url =
                      conf.tableau_base_url.value \o <<"/", "#">> \o site_segment
                          \o <<"/", "views", "/">> \o view.path

\* C11 witness: a view run with site_name 's' that has returned the records
\* of two views, both under '/site/s'.
C11_Witness ==
    /\ kind = "view"
    /\ conf.site_name = Given(<<"s">>)
    /\ Len(returned) = 2
    /\ returned[1].url = <<"h", "/", "#", "/", "site", "/", "s", "/", "views", "/", "w", "/", "x">>
    /\ returned[2].url = <<"h", "/", "#", "/", "site", "/", "s", "/", "views", "/", "w", "/", "y">>
    /\ returned[2].query_text = returned[2].url

====
